---- MODULE Spec2Model ----
(***************************************************************************)
(* Inbound-call routing and voicemail fallback of nomadic-phone            *)
(* (src/server/routes/webhooks.js, TypeScript router at lines 261-618).    *)
(*                                                                         *)
(* The server keeps no per-call state: each webhook handler is a function  *)
(* of the request and of the process-wide config.  The state of the model  *)
(* is the config, and per call the last request the carrier made, the      *)
(* response the server gave (which tells the carrier what to call next),   *)
(* and history counters (ring attempts, hops, notifications dispatched).   *)
(***************************************************************************)
EXTENDS Integers, Sequences, FiniteSets, TLC

VARIABLES config, calls, notifs

vars == <<config, calls, notifs>>

(***************************************************************************)
(* Bounds of the model.                                                    *)
(***************************************************************************)
\* Cap on the number of callbacks of one call the model follows.  The code's
\* own bound (maxAttempts) keeps every chain well below it.
MaxHops == 25

(***************************************************************************)
(* Values.                                                                 *)
(***************************************************************************)
CallSids == {"CA1", "CA2"}

Provisioned == "+15550009999"    \* config.TWILIO_PHONE_NUMBER
RedirectTo  == "+15550001111"    \* a configured config.REDIRECT_NUMBER
External    == "+15550002222"    \* some other number
Caller      == "+15550003333"    \* an external caller
ClientId    == "client:nomadic_client"

DefaultVoiceMessage == "Please leave a message after the beep."
CustomVoiceMessage  == "Leave a message."

\* DialCallStatus values the carrier reports after a <Dial>; "" is an absent
\* field, "answered" is a value outside the five the handlers name.
DialOutcomes == {"completed", "no-answer", "busy", "failed", "canceled", "answered"}

Signatures == {"valid", "invalid", "missing"}

NotifKinds == {"incoming-call", "missed-call", "voicemail", "sms"}

\* What the notification relay does with one delivery: it accepts the message,
\* answers with a status other than 1, or does not answer within the timeout;
\* "throws" is an error raised by the service call itself, outside the
\* try/catch around the HTTP post.
RelayOutcomes == {"ok", "rejected", "timeout", "throws"}

(***************************************************************************)
(* Strings the code parses or formats are sequences of characters.         *)
(***************************************************************************)
Digits == <<"0", "1", "2", "3", "4", "5", "6", "7", "8", "9">>

IsDigit(ch) == \E i \in 1..10 : Digits[i] = ch

DigitVal(ch) == (CHOOSE i \in 1..10 : Digits[i] = ch) - 1

RECURSIVE NatDigits(_)
NatDigits(n) ==
    IF n < 10 THEN <<Digits[n + 1]>>
    ELSE NatDigits(n \div 10) \o <<Digits[(n % 10) + 1]>>

\* `${attempt}` : Number to decimal string.
FormatInt(n) == IF n < 0 THEN <<"-">> \o NatDigits(0 - n) ELSE NatDigits(n)

RECURSIVE SkipWs(_)
SkipWs(s) == IF s # <<>> /\ Head(s) = " " THEN SkipWs(Tail(s)) ELSE s

RECURSIVE DigitRun(_)
DigitRun(s) ==
    IF s # <<>> /\ IsDigit(Head(s)) THEN <<Head(s)>> \o DigitRun(Tail(s)) ELSE <<>>

RECURSIVE DigitsVal(_, _)
DigitsVal(s, acc) ==
    IF s = <<>> THEN acc ELSE DigitsVal(Tail(s), acc * 10 + DigitVal(Head(s)))

\* parseInt(string): leading whitespace, an optional sign, then the longest
\* run of decimal digits; NaN when there is no digit.  <<>> is an absent or
\* empty parameter.
ParseInt(s) ==
    LET t    == SkipWs(s)
        neg  == t # <<>> /\ Head(t) = "-"
        sgn  == t # <<>> /\ Head(t) \in {"-", "+"}
        body == IF sgn THEN Tail(t) ELSE t
        run  == DigitRun(body)
    IN  IF run = <<>> THEN [nan |-> TRUE, val |-> 0]
        ELSE [nan |-> FALSE,
              val |-> IF neg THEN 0 - DigitsVal(run, 0) ELSE DigitsVal(run, 0)]

\* parseInt(req.query.attempt as string) || 1
AttemptOf(q) ==
    LET p == ParseInt(q) IN IF p.nan \/ p.val = 0 THEN 1 ELSE p.val

(***************************************************************************)
(* Call-control documents: sequences of verbs.                             *)
(***************************************************************************)
NoQuery == <<>>

Url(path, attempt) == [path |-> path, attempt |-> attempt]

Say(voice, text) == [verb |-> "Say", voice |-> voice, text |-> text]

Pause(len) == [verb |-> "Pause", length |-> len]

Redirect(url) == [verb |-> "Redirect", method |-> "POST", url |-> url]

Record(maxLength, callback) ==
    [verb |-> "Record", maxLength |-> maxLength, recordingStatusCallback |-> callback]

Number(n) == [kind |-> "Number", target |-> n]

Client(identity) == [kind |-> "Client", target |-> identity]

\* The verbs of a document.
VerbsOf(doc) == {doc[i].verb : i \in 1..Len(doc)}


(***************************************************************************)
(* Requests and responses.                                                 *)
(***************************************************************************)
\* A webhook request: the path and the attempt query parameter of the URL,
\* the body fields the handlers read, and the state of the signature header.
Request(path, attempt, to, from, sid, status, sig) ==
    [path |-> path, attempt |-> attempt, To |-> to, From |-> from,
     CallSid |-> sid, DialCallStatus |-> status, sig |-> sig]

NoRequest == Request("", NoQuery, "", "", "", "", "missing")

\* res.type('text/xml').send(twiml.toString())
XmlResponse(doc) ==
    [status |-> 200, type |-> "text/xml", doc |-> doc, error |-> ""]

\* res.status(code).json({ error })
JsonError(code, error) ==
    [status |-> code, type |-> "application/json", doc |-> <<>>, error |-> error]

NoResponse == [status |-> 0, type |-> "", doc |-> <<>>, error |-> ""]

\* twilio.validateRequest(authToken, signature, url, body): the signature
\* header is the one the carrier computes with the account's auth token.
ValidateRequest(token, sig) == sig = "valid"

\* Variant: a request without a signature header is let through.
validateTwilioRequest_MissingPasses(req, cfg) ==
    IF cfg.NODE_ENV = "production"
    THEN IF cfg.TWILIO_AUTH_TOKEN = ""
         THEN JsonError(500, "Twilio auth token not configured")
         ELSE IF req.sig # "missing" /\ ~ValidateRequest(cfg.TWILIO_AUTH_TOKEN, req.sig)
              THEN JsonError(403, "Invalid Twilio signature")
              ELSE NoResponse
    ELSE NoResponse

\* Variant: the signature is checked in every environment.
validateTwilioRequest_AlwaysChecks(req, cfg) ==
    IF cfg.TWILIO_AUTH_TOKEN = ""
    THEN JsonError(500, "Twilio auth token not configured")
    ELSE IF ~ValidateRequest(cfg.TWILIO_AUTH_TOKEN, req.sig)
         THEN JsonError(403, "Invalid Twilio signature")
         ELSE NoResponse

\* Variant: the signature is checked before the auth token is looked at.
validateTwilioRequest_SignatureFirst(req, cfg) ==
    IF cfg.NODE_ENV = "production"
    THEN IF ~ValidateRequest(cfg.TWILIO_AUTH_TOKEN, req.sig)
         THEN JsonError(403, "Invalid Twilio signature")
         ELSE IF cfg.TWILIO_AUTH_TOKEN = ""
              THEN JsonError(500, "Twilio auth token not configured")
              ELSE NoResponse
    ELSE NoResponse

\* The validation middleware: "next" hands the request to the route handler.
validateTwilioRequest(req, cfg) ==
    IF cfg.NODE_ENV = "production"
    THEN IF cfg.TWILIO_AUTH_TOKEN = ""
         THEN JsonError(500, "Twilio auth token not configured")
         ELSE IF ~ValidateRequest(cfg.TWILIO_AUTH_TOKEN, req.sig)
              THEN JsonError(403, "Invalid Twilio signature")
              ELSE NoResponse
    ELSE NoResponse

(***************************************************************************)
(* Route handlers: the document each one builds.                           *)
(***************************************************************************)
maxAttempts == 10

\* Variant: the redirect number is never consulted.
TwimlAppDoc_IgnoresRedirect(req, cfg) ==
    IF req.To = cfg.TWILIO_PHONE_NUMBER
    THEN << Redirect(Url("dial-client", <<"1">>)) >>
    ELSE << [verb |-> "Dial", callerId |-> cfg.TWILIO_PHONE_NUMBER,
             action |-> Url("dial-status", NoQuery), method |-> "POST",
             noun |-> Number(req.To)] >>

\* Variant: the outbound bridge presents the caller instead of the
\* provisioned number.
TwimlAppDoc_CallerIdFrom(req, cfg) ==
    IF req.To = cfg.TWILIO_PHONE_NUMBER
    THEN IF cfg.REDIRECT_NUMBER # ""
         THEN << [verb |-> "Dial", timeout |-> 30,
                  action |-> Url("call-timeout", NoQuery), method |-> "POST",
                  noun |-> Number(cfg.REDIRECT_NUMBER)] >>
         ELSE << Redirect(Url("dial-client", <<"1">>)) >>
    ELSE << [verb |-> "Dial", callerId |-> req.From,
             action |-> Url("dial-status", NoQuery), method |-> "POST",
             noun |-> Number(req.To)] >>

\* Variant: the first ring of the client is started by this handler itself.
TwimlAppDoc_DialsClientDirectly(req, cfg) ==
    IF req.To = cfg.TWILIO_PHONE_NUMBER
    THEN IF cfg.REDIRECT_NUMBER # ""
         THEN << [verb |-> "Dial", timeout |-> 30,
                  action |-> Url("call-timeout", NoQuery), method |-> "POST",
                  noun |-> Number(cfg.REDIRECT_NUMBER)] >>
         ELSE << [verb |-> "Dial", callerId |-> req.To, timeout |-> 5,
                  action |-> Url("dial-result", <<"1">>), method |-> "POST",
                  ringTone |-> "us", noun |-> Client("nomadic_client")] >>
    ELSE << [verb |-> "Dial", callerId |-> cfg.TWILIO_PHONE_NUMBER,
             action |-> Url("dial-status", NoQuery), method |-> "POST",
             noun |-> Number(req.To)] >>

\* POST /voice/twiml-app
TwimlAppDoc(req, cfg) ==
    IF req.To = cfg.TWILIO_PHONE_NUMBER
    THEN IF cfg.REDIRECT_NUMBER # ""
         THEN << [verb |-> "Dial", timeout |-> 30,
                  action |-> Url("call-timeout", NoQuery), method |-> "POST",
                  noun |-> Number(cfg.REDIRECT_NUMBER)] >>
         ELSE << Redirect(Url("dial-client", <<"1">>)) >>
    ELSE << [verb |-> "Dial", callerId |-> cfg.TWILIO_PHONE_NUMBER,
             action |-> Url("dial-status", NoQuery), method |-> "POST",
             noun |-> Number(req.To)] >>

\* The notifications POST /voice/twiml-app hands to the pushover service.
TwimlAppNotifies(req, cfg) ==
    IF req.To = cfg.TWILIO_PHONE_NUMBER THEN <<"incoming-call">> ELSE <<>>

\* Variant: the attempt is a counter kept in the server (one more than the
\* rings started so far, over all calls) instead of the query parameter.
DialClientDoc_ServerCounter(req, cfg) ==
    LET RECURSIVE Total(_)
        Total(S) == IF S = {} THEN 0
                    ELSE LET x == CHOOSE y \in S : TRUE
                         IN  Len(calls[x].rings) + Total(S \ {x})
        attempt == Total(CallSids) + 1
    IN  << Say("Polly.Joanna", "Connecting your call, please wait."),
           Pause(2),
           [verb |-> "Dial", callerId |-> req.To, timeout |-> 5,
            action |-> Url("dial-result", FormatInt(attempt)), method |-> "POST",
            ringTone |-> "us", noun |-> Client("nomadic_client")] >>

\* Variant: the action URL carries the next attempt instead of this one.
DialClientDoc_Increments(req, cfg) ==
    LET attempt == AttemptOf(req.attempt)
    IN  << Say("Polly.Joanna", "Connecting your call, please wait."),
           Pause(2),
           [verb |-> "Dial", callerId |-> req.To, timeout |-> 5,
            action |-> Url("dial-result", FormatInt(attempt + 1)), method |-> "POST",
            ringTone |-> "us", noun |-> Client("nomadic_client")] >>

\* Variant: the client rings for 30 seconds.
DialClientDoc_LongRing(req, cfg) ==
    LET attempt == AttemptOf(req.attempt)
    IN  << Say("Polly.Joanna", "Connecting your call, please wait."),
           Pause(2),
           [verb |-> "Dial", callerId |-> req.To, timeout |-> 30,
            action |-> Url("dial-result", FormatInt(attempt)), method |-> "POST",
            ringTone |-> "us", noun |-> Client("nomadic_client")] >>

\* POST /voice/dial-client
DialClientDoc(req, cfg) ==
    LET attempt == AttemptOf(req.attempt)
    IN  << Say("Polly.Joanna", "Connecting your call, please wait."),
           Pause(2),
           [verb |-> "Dial", callerId |-> req.To, timeout |-> 5,
            action |-> Url("dial-result", FormatInt(attempt)), method |-> "POST",
            ringTone |-> "us", noun |-> Client("nomadic_client")] >>

rejectedStatuses == {"canceled", "busy", "failed"}

\* Variant: the retry test is attempt <= maxAttempts.
DialResultDoc_OffByOne(req, cfg) ==
    LET attempt == AttemptOf(req.attempt)
    IN  IF req.DialCallStatus = "completed" THEN <<>>
        ELSE IF req.DialCallStatus \in rejectedStatuses
        THEN << Redirect(Url("call-timeout", NoQuery)) >>
        ELSE IF attempt <= maxAttempts
        THEN << Redirect(Url("dial-client", FormatInt(attempt + 1))) >>
        ELSE << Redirect(Url("call-timeout", NoQuery)) >>

\* Variant: busy is not among the rejected statuses.
DialResultDoc_BusyRetries(req, cfg) ==
    LET attempt == AttemptOf(req.attempt)
    IN  IF req.DialCallStatus = "completed" THEN <<>>
        ELSE IF req.DialCallStatus \in rejectedStatuses \ {"busy"}
        THEN << Redirect(Url("call-timeout", NoQuery)) >>
        ELSE IF attempt < maxAttempts
        THEN << Redirect(Url("dial-client", FormatInt(attempt + 1))) >>
        ELSE << Redirect(Url("call-timeout", NoQuery)) >>

\* Variant: the answered test is missing.
DialResultDoc_CompletedRetries(req, cfg) ==
    LET attempt == AttemptOf(req.attempt)
    IN  IF req.DialCallStatus \in rejectedStatuses
        THEN << Redirect(Url("call-timeout", NoQuery)) >>
        ELSE IF attempt < maxAttempts
        THEN << Redirect(Url("dial-client", FormatInt(attempt + 1))) >>
        ELSE << Redirect(Url("call-timeout", NoQuery)) >>

\* Variant: the retry redirect repeats the attempt it received.
DialResultDoc_NoIncrement(req, cfg) ==
    LET attempt == AttemptOf(req.attempt)
    IN  IF req.DialCallStatus = "completed" THEN <<>>
        ELSE IF req.DialCallStatus \in rejectedStatuses
        THEN << Redirect(Url("call-timeout", NoQuery)) >>
        ELSE IF attempt < maxAttempts
        THEN << Redirect(Url("dial-client", FormatInt(attempt))) >>
        ELSE << Redirect(Url("call-timeout", NoQuery)) >>

\* Variant: only no-answer is retried; any other status gives up.
DialResultDoc_OnlyNoAnswerRetries(req, cfg) ==
    LET attempt == AttemptOf(req.attempt)
    IN  IF req.DialCallStatus = "completed" THEN <<>>
        ELSE IF req.DialCallStatus # "no-answer"
        THEN << Redirect(Url("call-timeout", NoQuery)) >>
        ELSE IF attempt < maxAttempts
        THEN << Redirect(Url("dial-client", FormatInt(attempt + 1))) >>
        ELSE << Redirect(Url("call-timeout", NoQuery)) >>

\* POST /voice/dial-result
DialResultDoc(req, cfg) ==
    LET attempt == AttemptOf(req.attempt)
    IN  IF req.DialCallStatus = "completed" THEN <<>>
        ELSE IF req.DialCallStatus \in rejectedStatuses
        THEN << Redirect(Url("call-timeout", NoQuery)) >>
        ELSE IF attempt < maxAttempts
        THEN << Redirect(Url("dial-client", FormatInt(attempt + 1))) >>
        ELSE << Redirect(Url("call-timeout", NoQuery)) >>

unansweredStatuses == {"no-answer", "busy", "failed", "canceled"}

\* Variant: an absent DialCallStatus is not treated as unanswered.
CallTimeoutDoc_AbsentIsAnswered(req, cfg) ==
    IF req.DialCallStatus \in unansweredStatuses
    THEN (IF cfg.VOICE_MESSAGE # "" THEN << [verb |-> "Say", text |-> cfg.VOICE_MESSAGE] >>
          ELSE <<>>)
         \o << Record(300, Url("recording", NoQuery)) >>
    ELSE <<>>

\* POST /voice/call-timeout
CallTimeoutDoc(req, cfg) ==
    IF req.DialCallStatus = "" \/ req.DialCallStatus \in unansweredStatuses
    THEN (IF cfg.VOICE_MESSAGE # "" THEN << [verb |-> "Say", text |-> cfg.VOICE_MESSAGE] >>
          ELSE <<>>)
         \o << Record(300, Url("recording", NoQuery)) >>
    ELSE <<>>

\* POST /voice/dial-status
DialStatusDoc(req, cfg) == <<>>

(***************************************************************************)
(* The router, the notification service and the error handler.            *)
(***************************************************************************)
VoicePaths == {"twiml-app", "dial-client", "dial-result", "call-timeout", "dial-status"}

\* The document of the voice route at req.path.
RouteDoc(req, cfg) ==
    CASE req.path = "twiml-app"    -> TwimlAppDoc(req, cfg)
      [] req.path = "dial-client"  -> DialClientDoc(req, cfg)
      [] req.path = "dial-result"  -> DialResultDoc(req, cfg)
      [] req.path = "call-timeout" -> CallTimeoutDoc(req, cfg)
      [] req.path = "dial-status"  -> DialStatusDoc(req, cfg)

\* res.status(200).send('OK')
OkResponse ==
    [status |-> 200, type |-> "text/html", doc |-> <<>>, error |-> "", body |-> "OK"]

\* Variant: every route answers with a document.
RouteResponse_AlwaysXml(req, cfg) ==
    IF req.path \in VoicePaths THEN XmlResponse(RouteDoc(req, cfg)) ELSE XmlResponse(<<>>)

\* The response the route at req.path sends when it runs to its end.
RouteResponse(req, cfg) ==
    IF req.path \in VoicePaths THEN XmlResponse(RouteDoc(req, cfg)) ELSE OkResponse

\* parseInt(CallDuration) || 0
DurationOf(q) == LET p == ParseInt(q) IN IF p.nan THEN 0 ELSE p.val

\* Direction === 'inbound' && To === config.TWILIO_PHONE_NUMBER
InboundToUs(req, cfg) ==
    req.Direction = "inbound" /\ req.To = cfg.TWILIO_PHONE_NUMBER

\* Variant: a completed call of exactly 5 seconds still counts as missed.
StatusNotifies_AtMostFive(req, cfg) ==
    (IF /\ req.CallStatus = "completed"
        /\ InboundToUs(req, cfg)
        /\ DurationOf(req.CallDuration) <= 5
     THEN <<"missed-call">> ELSE <<>>)
    \o
    (IF /\ req.CallStatus \in {"failed", "canceled", "busy", "no-answer"}
        /\ InboundToUs(req, cfg)
     THEN <<"missed-call">> ELSE <<>>)

\* Variant: the unanswered branch applies the duration test too.
StatusNotifies_UnansweredShortOnly(req, cfg) ==
    (IF /\ req.CallStatus = "completed"
        /\ InboundToUs(req, cfg)
        /\ DurationOf(req.CallDuration) < 5
     THEN <<"missed-call">> ELSE <<>>)
    \o
    (IF /\ req.CallStatus \in {"failed", "canceled", "busy", "no-answer"}
        /\ InboundToUs(req, cfg)
        /\ DurationOf(req.CallDuration) < 5
     THEN <<"missed-call">> ELSE <<>>)

\* Variant: completed is among the statuses of the second branch.
StatusNotifies_BothBranches(req, cfg) ==
    (IF /\ req.CallStatus = "completed"
        /\ InboundToUs(req, cfg)
        /\ DurationOf(req.CallDuration) < 5
     THEN <<"missed-call">> ELSE <<>>)
    \o
    (IF /\ req.CallStatus \in {"completed", "failed", "canceled", "busy", "no-answer"}
        /\ InboundToUs(req, cfg)
     THEN <<"missed-call">> ELSE <<>>)

\* POST /voice/status: the completed branch, then the unanswered branch.
StatusNotifies(req, cfg) ==
    (IF /\ req.CallStatus = "completed"
        /\ InboundToUs(req, cfg)
        /\ DurationOf(req.CallDuration) < 5
     THEN <<"missed-call">> ELSE <<>>)
    \o
    (IF /\ req.CallStatus \in {"failed", "canceled", "busy", "no-answer"}
        /\ InboundToUs(req, cfg)
     THEN <<"missed-call">> ELSE <<>>)

\* Variant: any RecordingDuration that is present counts as content.
RecordingNotifies_AnyPresent(req, cfg) ==
    IF req.RecordingDuration # <<>> THEN <<"voicemail">> ELSE <<>>

\* POST /voice/recording: RecordingDuration && parseInt(RecordingDuration) > 0
RecordingNotifies(req, cfg) ==
    IF /\ req.RecordingDuration # <<>>
       /\ ~ParseInt(req.RecordingDuration).nan
       /\ ParseInt(req.RecordingDuration).val > 0
    THEN <<"voicemail">> ELSE <<>>

\* Variant: the recipient of the message is not looked at.
SmsIncomingNotifies_AnyRecipient(req, cfg) == <<"sms">>

\* POST /sms/incoming
SmsIncomingNotifies(req, cfg) ==
    IF req.To # cfg.TWILIO_PHONE_NUMBER THEN <<>> ELSE <<"sms">>

\* The notifications the route at req.path hands to the pushover service, in
\* order.
RouteNotifies(req, cfg) ==
    CASE req.path = "twiml-app"    -> TwimlAppNotifies(req, cfg)
      [] req.path = "status"       -> StatusNotifies(req, cfg)
      [] req.path = "recording"    -> RecordingNotifies(req, cfg)
      [] req.path = "sms-incoming" -> SmsIncomingNotifies(req, cfg)
      [] OTHER                     -> <<>>

\* PushoverService.send*Notification: a disabled service skips the delivery,
\* errors of the HTTP post are caught and turned into a result.
SendNotification(enabled, relay) ==
    IF relay = "throws" THEN "thrown"
    ELSE IF ~enabled THEN "skipped"
    ELSE IF relay = "ok" THEN "delivered"
    ELSE "failed"

\* Variant: the call is not wrapped in try/catch.
NotifyGuarded_NoCatch(result) == result

\* try { await pushoverService.send...() } catch (error) { console.error(...) }
NotifyGuarded(result) == IF result = "thrown" THEN "caught" ELSE result

\* The default branch of the error handler.
errorHandler == JsonError(500, "Internal server error")

(***************************************************************************)
(* The carrier: what it does with a document.                              *)
(***************************************************************************)
\* The first verb of the document that hands control on: a redirect, a dial
\* (its action URL is requested when the dial ends) or a record.
RECURSIVE CarrierNext(_)
CarrierNext(doc) ==
    IF doc = <<>> THEN [kind |-> "end", url |-> Url("", NoQuery)]
    ELSE LET v == Head(doc)
         IN  IF v.verb = "Redirect" THEN [kind |-> "redirect", url |-> v.url]
             ELSE IF v.verb = "Dial" THEN [kind |-> "dial", url |-> v.action]
             ELSE IF v.verb = "Record"
             THEN [kind |-> "record", url |-> v.recordingStatusCallback]
             ELSE CarrierNext(Tail(doc))

\* The callback the carrier makes next for call c.
Pending(c) == CarrierNext(calls[c].resp.doc)

\* A redirect carries no DialCallStatus; the action of a dial carries the
\* outcome of the dial.
StatusesFor(kind) == IF kind = "dial" THEN DialOutcomes ELSE {""}

\* The ring-client attempts a document starts.
RingsOf(doc) ==
    LET idx == {i \in 1..Len(doc) : doc[i].verb = "Dial" /\ doc[i].noun.kind = "Client"}
    IN  IF idx = {} THEN <<>>
        ELSE << AttemptOf(doc[CHOOSE i \in idx : TRUE].action.attempt) >>

(***************************************************************************)
(* State.                                                                  *)
(***************************************************************************)
Configs ==
    [TWILIO_PHONE_NUMBER : {Provisioned},
     TWILIO_AUTH_TOKEN   : {"", "token"},
     NODE_ENV            : {"development", "production"},
     REDIRECT_NUMBER     : {"", RedirectTo},
     VOICE_MESSAGE       : {DefaultVoiceMessage, CustomVoiceMessage},
     PUSHOVER_ENABLED    : BOOLEAN,
     TWILIO_APPLICATION_SID : {""}]

NewCall ==
    [phase |-> "new", req |-> NoRequest, resp |-> NoResponse,
     rings |-> <<>>, outcomes |-> {}, hops |-> 0,
     sent |-> <<>>, queue |-> <<>>, delivery |-> <<>>]

Init ==
    /\ config \in Configs
    /\ calls = [c \in CallSids |-> NewCall]
    /\ notifs = [c \in CallSids |-> [k \in NotifKinds |-> 0]]

\* The end of an exchange of call c: the response is sent, and the carrier
\* goes on with the call as the document says.
Finish(c, req, resp, sent, delivery) ==
    LET next == CarrierNext(resp.doc)
    IN  calls' = [calls EXCEPT ![c] =
              [phase |-> IF next.kind \in {"redirect", "dial"} THEN "live" ELSE "done",
               req   |-> req,
               resp  |-> resp,
               rings |-> calls[c].rings \o RingsOf(resp.doc),
               outcomes |-> calls[c].outcomes \cup ({req.DialCallStatus} \ {""}),
               hops  |-> calls[c].hops + 1,
               sent  |-> sent,
               queue |-> <<>>,
               delivery |-> delivery]]

\* The handler of call c hands a notification of kind k to the pushover
\* service and waits for it (await): the response is not sent yet.
Dispatch(c, req, k, rest, sent, delivery) ==
    /\ calls' = [calls EXCEPT ![c] =
              [@ EXCEPT !.phase = "awaiting", !.req = req, !.resp = NoResponse,
                        !.sent = Append(sent, k), !.queue = rest,
                        !.delivery = delivery]]
    /\ notifs' = [notifs EXCEPT ![c][k] = @ + 1]

\* One request/response exchange of call c: the validation middleware, then
\* the route handler up to its response or to its first await.
Exchange(c, req) ==
    LET v     == validateTwilioRequest(req, config)
        kinds == RouteNotifies(req, config)
    IN  /\ calls[c].hops < MaxHops
        /\ IF v # NoResponse
           THEN Finish(c, req, v, <<>>, <<>>) /\ UNCHANGED notifs
           ELSE IF kinds = <<>>
           THEN Finish(c, req, RouteResponse(req, config), <<>>, <<>>) /\ UNCHANGED notifs
           ELSE Dispatch(c, req, Head(kinds), Tail(kinds), <<>>, <<>>)
        /\ UNCHANGED config

\* The pushover service call the handler of call c awaits returns: the
\* handler goes on to its next notification or to its response; an error it
\* does not catch goes to the error handler.
RelayReturns(c) ==
    /\ calls[c].phase = "awaiting"
    /\ \E relay \in RelayOutcomes :
          LET result   == NotifyGuarded(SendNotification(config.PUSHOVER_ENABLED, relay))
              delivery == Append(calls[c].delivery, result)
          IN  IF result = "thrown"
              THEN Finish(c, calls[c].req, errorHandler, calls[c].sent, delivery)
                   /\ UNCHANGED notifs
              ELSE IF calls[c].queue # <<>>
              THEN Dispatch(c, calls[c].req, Head(calls[c].queue), Tail(calls[c].queue),
                            calls[c].sent, delivery)
              ELSE Finish(c, calls[c].req, RouteResponse(calls[c].req, config),
                          calls[c].sent, delivery)
                   /\ UNCHANGED notifs
    /\ UNCHANGED config

\* The carrier starts a call: POST /voice/twiml-app.
TwimlApp(c) ==
    /\ calls[c].phase = "new"
    /\ \E to \in {Provisioned, External}, from \in {Caller, ClientId}, sig \in Signatures :
          LET req == Request("twiml-app", NoQuery, to, from, c, "", sig)
          IN  Exchange(c, req)

\* The callback of call c to the handler at path, built by the carrier from
\* the URL the last document named.
Callback(c, path, sig, status) ==
    Request(path, Pending(c).url.attempt, calls[c].req.To, calls[c].req.From,
            c, status, sig)

DialClient(c) ==
    /\ calls[c].phase = "live"
    /\ Pending(c).url.path = "dial-client"
    /\ \E sig \in Signatures, status \in StatusesFor(Pending(c).kind) :
          LET req == Callback(c, "dial-client", sig, status)
          IN  Exchange(c, req)

DialResult(c) ==
    /\ calls[c].phase = "live"
    /\ Pending(c).url.path = "dial-result"
    /\ \E sig \in Signatures, status \in StatusesFor(Pending(c).kind) :
          LET req == Callback(c, "dial-result", sig, status)
          IN  Exchange(c, req)

CallTimeout(c) ==
    /\ calls[c].phase = "live"
    /\ Pending(c).url.path = "call-timeout"
    /\ \E sig \in Signatures, status \in StatusesFor(Pending(c).kind) :
          LET req == Callback(c, "call-timeout", sig, status)
          IN  Exchange(c, req)

DialStatus(c) ==
    /\ calls[c].phase = "live"
    /\ Pending(c).url.path = "dial-status"
    /\ \E sig \in Signatures, status \in StatusesFor(Pending(c).kind) :
          LET req == Callback(c, "dial-status", sig, status)
          IN  Exchange(c, req)

\* The calls the specification follows.
Tracked == {"CA1"}

Next ==
    \E c \in Tracked :
        \/ TwimlApp(c)
        \/ DialClient(c)
        \/ DialResult(c)
        \/ CallTimeout(c)
        \/ DialStatus(c)
        \/ RelayReturns(c)

Spec == Init /\ [][Next]_vars

(***************************************************************************)
(* Two calls at once: the carrier's callbacks of the two calls interleave  *)
(* in any order.  The carrier signs its requests.                          *)
(***************************************************************************)
InitTwo ==
    /\ Init
    /\ config.NODE_ENV = "production"
    /\ config.TWILIO_AUTH_TOKEN # ""
    /\ config.VOICE_MESSAGE = DefaultVoiceMessage

NextTwo ==
    \E c \in CallSids :
        /\ \/ TwimlApp(c)
           \/ DialClient(c)
           \/ DialResult(c)
           \/ CallTimeout(c)
           \/ DialStatus(c)
           \/ RelayReturns(c)
        /\ calls'[c].req.sig = "valid"
        /\ calls'[c].req.From = Caller
        /\ "answered" \notin calls'[c].outcomes

SpecTwo == InitTwo /\ [][NextTwo]_vars

(***************************************************************************)
(* Requests posted to the endpoints directly.  Every endpoint accepts any  *)
(* POST: the fields are whatever the sender wrote, not what a document of  *)
(* this server named.                                                      *)
(***************************************************************************)
\* Values of the attempt query parameter: the decimal forms of 1..10, an
\* absent parameter, and values out of range or not numbers.
AttemptQueries ==
    {FormatInt(n) : n \in 1..10}
    \cup {NoQuery, <<"0">>, <<"1", "1">>, <<"-", "1">>, <<"a">>, <<"7", "a">>, <<" ", "5">>}

\* Values of CallDuration and RecordingDuration; <<>> is an absent field.
DurationFields == {<<>>, <<"0">>, <<"4">>, <<"5">>, <<"1", "2">>}

CallStatuses == {"completed", "failed", "canceled", "busy", "no-answer", "in-progress"}

Directions == {"inbound", "outbound-api"}

MessageStatuses == {"sent", "delivered", "failed"}

DirectDialClient(c) ==
    /\ calls[c].phase = "new"
    /\ \E attempt \in AttemptQueries, sig \in Signatures :
          Exchange(c, Request("dial-client", attempt, Provisioned, Caller, c, "", sig))

DirectDialResult(c) ==
    /\ calls[c].phase = "new"
    /\ \E attempt \in AttemptQueries, status \in DialOutcomes \cup {""}, sig \in Signatures :
          Exchange(c, Request("dial-result", attempt, Provisioned, Caller, c, status, sig))

DirectCallTimeout(c) ==
    /\ calls[c].phase = "new"
    /\ \E status \in DialOutcomes \cup {""}, sig \in Signatures :
          Exchange(c, Request("call-timeout", NoQuery, Provisioned, Caller, c, status, sig))

DirectDialStatus(c) ==
    /\ calls[c].phase = "new"
    /\ \E status \in DialOutcomes \cup {""}, sig \in Signatures :
          Exchange(c, Request("dial-status", NoQuery, External, ClientId, c, status, sig))

\* POST /voice/status
Status(c) ==
    /\ calls[c].phase = "new"
    /\ \E status \in CallStatuses, duration \in DurationFields, dir \in Directions,
          to \in {Provisioned, External}, sig \in Signatures :
          Exchange(c, Request("status", NoQuery, to, Caller, c, "", sig)
                      @@ [CallStatus |-> status, CallDuration |-> duration,
                          Direction |-> dir])

\* POST /voice/recording
Recording(c) ==
    /\ calls[c].phase = "new"
    /\ \E duration \in DurationFields \cup {<<"-", "1">>, <<"a">>}, sig \in Signatures :
          Exchange(c, Request("recording", NoQuery, "", "", c, "", sig)
                      @@ [RecordingDuration |-> duration])

\* POST /sms/incoming
SmsIncoming(c) ==
    /\ calls[c].phase = "new"
    /\ \E to \in {Provisioned, External}, sig \in Signatures :
          Exchange(c, Request("sms-incoming", NoQuery, to, Caller, c, "", sig))

\* POST /sms/status
SmsStatus(c) ==
    /\ calls[c].phase = "new"
    /\ \E status \in MessageStatuses, sig \in Signatures :
          Exchange(c, Request("sms-status", NoQuery, Provisioned, Caller, c, "", sig)
                      @@ [MessageStatus |-> status])

\* The sender posts the last request of c once more.
Redeliver(c) ==
    /\ calls[c].phase \in {"live", "done"}
    /\ calls[c].hops = 1
    /\ Exchange(c, calls[c].req)

NextDirect ==
    \E c \in Tracked :
        \/ TwimlApp(c)
        \/ DirectDialClient(c)
        \/ DirectDialResult(c)
        \/ DirectCallTimeout(c)
        \/ DirectDialStatus(c)
        \/ Status(c)
        \/ Recording(c)
        \/ SmsIncoming(c)
        \/ SmsStatus(c)
        \/ RelayReturns(c)
        \/ Redeliver(c)

SpecDirect == Init /\ [][NextDirect]_vars

(***************************************************************************)
(* The other server operation that writes to the config object: the voice  *)
(* routes /token and /configure-app call ensureTwiMLApp, which stores the   *)
(* application SID in the config object in memory.                         *)
(***************************************************************************)
AppSids == {"AP1", "AP2"}

\* Variant: the whole configuration is loaded again from an environment in
\* which no redirect number is set.
updateEnvFile_ReloadsEnv(appSid) ==
    /\ config' = [config EXCEPT !.TWILIO_APPLICATION_SID = appSid,
                                !.REDIRECT_NUMBER = ""]
    /\ UNCHANGED <<calls, notifs>>

\* TwiMLAppService.updateEnvFile: (config as any).TWILIO_APPLICATION_SID = appSid
updateEnvFile(appSid) ==
    /\ config' = [config EXCEPT !.TWILIO_APPLICATION_SID = appSid]
    /\ UNCHANGED <<calls, notifs>>

\* TwiMLAppService.ensureTwiMLApp: the application the carrier returns is
\* created or updated, then its SID is stored.
ensureTwiMLApp == \E appSid \in AppSids : updateEnvFile(appSid)

NextConfig ==
    \/ Next
    \/ ensureTwiMLApp

SpecConfig == Init /\ [][NextConfig]_vars

(***************************************************************************)
(* The whole life of an inbound call to the provisioned number: the chain  *)
(* of call-control callbacks, the caller hanging up at any point of it,    *)
(* then the recording callback (when a record instruction was executed)    *)
(* and the final status callback.  The carrier signs its requests.         *)
(***************************************************************************)
\* The final statuses of a call.
FinalCallStatuses == {"completed", "failed", "canceled", "busy", "no-answer"}

\* The server answered the call: the carrier executed a document that speaks
\* or records.
ServerAnswered(c) ==
    \/ calls[c].rings # <<>>
    \/ VerbsOf(calls[c].resp.doc) \cap {"Say", "Record"} # {}

\* The caller hangs up while the carrier is executing the last document: the
\* carrier makes no further call-control callback for this call.
HangUp(c) ==
    /\ calls[c].phase = "live"
    /\ calls' = [calls EXCEPT ![c].phase = "done"]
    /\ UNCHANGED <<config, notifs>>

\* The recordingStatusCallback of the record instruction the call ended on.
RecordingCallback(c) ==
    /\ calls[c].phase = "done"
    /\ calls[c].req.path = "call-timeout"
    /\ "Record" \in VerbsOf(calls[c].resp.doc)
    /\ \E duration \in DurationFields :
          Exchange(c, Request("recording", NoQuery, "", "", c, "", "valid")
                      @@ [RecordingDuration |-> duration])

\* The status callback of the call once it is over.  A call the server
\* answered is reported as completed; the duration is the time the caller
\* stayed on the line.
StatusCallback(c) ==
    /\ calls[c].phase = "done"
    /\ calls[c].req.path \in VoicePaths \cup {"recording"}
    /\ calls[c].req.path = "call-timeout" => "Record" \notin VerbsOf(calls[c].resp.doc)
    /\ \E status \in FinalCallStatuses, duration \in DurationFields :
          /\ ServerAnswered(c) => status = "completed"
          /\ Exchange(c, Request("status", NoQuery, Provisioned, Caller, c, "", "valid")
                         @@ [CallStatus |-> status, CallDuration |-> duration,
                             Direction |-> "inbound"])

InitLife ==
    /\ Init
    /\ config.NODE_ENV = "production" => config.TWILIO_AUTH_TOKEN # ""

NextLife ==
    \E c \in Tracked :
        \/ /\ \/ TwimlApp(c)
              \/ DialClient(c)
              \/ DialResult(c)
              \/ CallTimeout(c)
              \/ RelayReturns(c)
           /\ calls'[c].req.sig = "valid"
           /\ calls'[c].req.To = Provisioned
           /\ calls'[c].req.From = Caller
        \/ HangUp(c)
        \/ RecordingCallback(c)
        \/ StatusCallback(c)

SpecLife == InitLife /\ [][NextLife]_vars

(***************************************************************************)
(* Properties.                                                             *)
(*                                                                         *)
(* A property of a route handler is stated of the exchanges in which the   *)
(* handler ran, that is, the request passed the validation middleware and  *)
(* the response is the handler's text/xml document.                        *)
(***************************************************************************)
\* The last exchange of call c was handled by the route at path.
Handled(c, path) ==
    /\ calls[c].req.path = path
    /\ calls[c].resp.status = 200
    /\ calls[c].resp.type = "text/xml"

\* In this step call c made an exchange that the route at path handled.
HandledNow(c, path) ==
    /\ calls'[c].hops = calls[c].hops + 1
    /\ calls'[c].req.path = path
    /\ calls'[c].resp.status = 200
    /\ calls'[c].resp.type = "text/xml"

\* The URLs a document names: redirect targets and dial actions.
UrlsOf(doc) ==
    {doc[i].url : i \in {j \in 1..Len(doc) : doc[j].verb = "Redirect"}}
    \cup {doc[i].action : i \in {j \in 1..Len(doc) : doc[j].verb = "Dial"}}

VoicemailDoc ==
    << [verb |-> "Say", text |-> config.VOICE_MESSAGE],
       Record(300, Url("recording", NoQuery)) >>

\* C1: /voice/dial-result?attempt=n with DialCallStatus = no-answer answers,
\* for n in 1..9, with a redirect to /voice/dial-client?attempt=n+1, and for
\* n = 10 with a redirect to /voice/call-timeout (never to attempt 11).
C1_NoAnswerRetriesUntilMax ==
    \A c \in CallSids : \A n \in 1..10 :
        (/\ Handled(c, "dial-result")
         /\ calls[c].req.DialCallStatus = "no-answer"
         /\ calls[c].req.attempt = FormatInt(n))
        => /\ n < 10 =>
                calls[c].resp.doc = << Redirect(Url("dial-client", FormatInt(n + 1))) >>
           /\ n = 10 =>
                calls[c].resp.doc = << Redirect(Url("call-timeout", NoQuery)) >>

C1_Witness ==
    \E c \in CallSids :
        /\ Handled(c, "dial-result")
        /\ calls[c].req.DialCallStatus = "no-answer"
        /\ calls[c].req.attempt = <<"1", "0">>
        /\ calls[c].resp.doc = << Redirect(Url("call-timeout", NoQuery)) >>
        /\ calls[c].rings = <<1, 2, 3, 4, 5, 6, 7, 8, 9, 10>>

\* C2: /voice/dial-result with DialCallStatus busy, failed or canceled answers
\* at every attempt with exactly a redirect to /voice/call-timeout, so with no
\* redirect to /voice/dial-client.
C2_RejectedGoesToVoicemail ==
    \A c \in CallSids :
        (/\ Handled(c, "dial-result")
         /\ calls[c].req.DialCallStatus \in {"busy", "failed", "canceled"})
        => /\ calls[c].resp.doc = << Redirect(Url("call-timeout", NoQuery)) >>
           /\ \A u \in UrlsOf(calls[c].resp.doc) : u.path # "dial-client"

C2_Witness ==
    \E c \in CallSids :
        /\ Handled(c, "dial-result")
        /\ calls[c].req.DialCallStatus = "busy"
        /\ calls[c].req.attempt = <<"3">>
        /\ calls[c].resp.doc = << Redirect(Url("call-timeout", NoQuery)) >>

\* C3: an exchange of /voice/dial-result with DialCallStatus = completed
\* returns the empty document at every attempt and dispatches no
\* notification.
C3_CompletedIsEmptyAndSilent ==
    [][\A c \in CallSids :
          (HandledNow(c, "dial-result") /\ calls'[c].req.DialCallStatus = "completed")
          => /\ calls'[c].resp.doc = <<>>
             /\ calls'[c].sent = <<>>
             /\ notifs'[c] = notifs[c]]_vars

C3_Witness ==
    \E c \in CallSids :
        /\ Handled(c, "dial-result")
        /\ calls[c].req.DialCallStatus = "completed"
        /\ calls[c].req.attempt = <<"4">>
        /\ calls[c].resp.doc = <<>>
        /\ notifs[c]["missed-call"] = 0

\* C4: a call to the provisioned number with no redirect number configured,
\* all of whose dial results are no-answer, rings the client at attempts
\* 1, 2, ... in order, and when its chain is over it has rung exactly 10 times
\* and the last document is the voicemail prompt followed by a record.
C4_TenRingsThenVoicemail ==
    \A c \in CallSids :
        (/\ calls[c].phase # "new"
         /\ calls[c].resp.status = 200
         /\ calls[c].req.To = config.TWILIO_PHONE_NUMBER
         /\ config.REDIRECT_NUMBER = ""
         /\ calls[c].outcomes \subseteq {"no-answer"})
        => /\ \A i \in 1..Len(calls[c].rings) : calls[c].rings[i] = i
           /\ calls[c].phase = "done" =>
                /\ calls[c].rings = <<1, 2, 3, 4, 5, 6, 7, 8, 9, 10>>
                /\ calls[c].resp.doc = VoicemailDoc

C4_Witness ==
    \E c \in CallSids :
        /\ calls[c].phase = "done"
        /\ Handled(c, "call-timeout")
        /\ calls[c].req.To = config.TWILIO_PHONE_NUMBER
        /\ config.REDIRECT_NUMBER = ""
        /\ calls[c].outcomes = {"no-answer"}
        /\ Len(calls[c].rings) = 10
        /\ calls[c].resp.doc = VoicemailDoc

\* C5: whatever the dial outcomes, the chain of a call ends: it has at most
\* 10 ring-client attempts and at most 22 callbacks, a chain whose every
\* request was handled ends on the empty document or on a document whose last
\* verb is a record and that names no further URL, and a chain that is over
\* gets no further exchange.
C5_ChainTerminates ==
    [][\A c \in CallSids :
          /\ Len(calls'[c].rings) <= 10
          /\ calls'[c].hops <= 22
          /\ (calls'[c].phase = "done" /\ calls'[c].resp.status = 200)
             => \/ calls'[c].resp.doc = <<>>
                \/ /\ calls'[c].resp.doc[Len(calls'[c].resp.doc)].verb = "Record"
                   /\ UrlsOf(calls'[c].resp.doc) = {}
          /\ calls[c].phase = "done" => calls'[c] = calls[c]]_vars

C5_Witness ==
    \E c \in CallSids :
        /\ calls[c].phase = "done"
        /\ calls[c].hops = 22
        /\ Len(calls[c].rings) = 10
        /\ "Record" \in VerbsOf(calls[c].resp.doc)

\* C6: every attempt value the server writes into a /voice/dial-client or
\* /voice/dial-result URL of a call started at /voice/twiml-app is the decimal
\* form of an integer in 1..10.
C6_AttemptInRange ==
    \A c \in CallSids : \A u \in UrlsOf(calls[c].resp.doc) :
        u.path \in {"dial-client", "dial-result"}
        => \E n \in 1..10 : u.attempt = FormatInt(n)

C6_Witness ==
    \E c \in CallSids :
        /\ Handled(c, "dial-result")
        /\ Url("dial-client", <<"1", "0">>) \in UrlsOf(calls[c].resp.doc)

\* C7: a call event at /voice/twiml-app from an external caller whose To is
\* not the provisioned number gets a spoken message only: a non-empty document
\* of Say verbs, with no dial and no redirect.
C7_MisroutedGetsSpokenMessage ==
    \A c \in CallSids :
        (/\ Handled(c, "twiml-app")
         /\ calls[c].req.From = Caller
         /\ calls[c].req.To # config.TWILIO_PHONE_NUMBER)
        => /\ calls[c].resp.doc # <<>>
           /\ VerbsOf(calls[c].resp.doc) = {"Say"}

\* C8: with a redirect number configured, /voice/twiml-app answers a call to
\* the provisioned number with exactly one dial of the redirect number
\* (timeout 30, action /voice/call-timeout), and no document of that call ever
\* rings the client or names /voice/dial-client.
C8_RedirectNumberSingleAttempt ==
    \A c \in CallSids :
        (/\ calls[c].phase # "new"
         /\ calls[c].resp.status = 200
         /\ config.REDIRECT_NUMBER # ""
         /\ calls[c].req.To = config.TWILIO_PHONE_NUMBER)
        => /\ calls[c].req.path = "twiml-app" =>
                calls[c].resp.doc =
                    << [verb |-> "Dial", timeout |-> 30,
                        action |-> Url("call-timeout", NoQuery), method |-> "POST",
                        noun |-> Number(config.REDIRECT_NUMBER)] >>
           /\ calls[c].rings = <<>>
           /\ RingsOf(calls[c].resp.doc) = <<>>
           /\ \A u \in UrlsOf(calls[c].resp.doc) : u.path # "dial-client"
           /\ calls[c].req.path \in {"twiml-app", "call-timeout"}

C8_Witness ==
    \E c \in CallSids :
        /\ config.REDIRECT_NUMBER = RedirectTo
        /\ calls[c].req.To = config.TWILIO_PHONE_NUMBER
        /\ Handled(c, "call-timeout")
        /\ calls[c].req.DialCallStatus = "no-answer"
        /\ calls[c].hops = 2
        /\ calls[c].resp.doc = VoicemailDoc

\* C9: an exchange of /voice/twiml-app for a call from the software client to
\* an external number X returns the single bridge instruction dialing X with
\* the provisioned number as caller ID and action /voice/dial-status, and
\* dispatches no notification.
C9_OutboundBridge ==
    [][\A c \in CallSids :
          (/\ HandledNow(c, "twiml-app")
           /\ calls'[c].req.From = ClientId
           /\ calls'[c].req.To # config.TWILIO_PHONE_NUMBER)
          => /\ calls'[c].resp.doc =
                    << [verb |-> "Dial", callerId |-> config.TWILIO_PHONE_NUMBER,
                        action |-> Url("dial-status", NoQuery), method |-> "POST",
                        noun |-> Number(calls'[c].req.To)] >>
             /\ calls'[c].sent = <<>>
             /\ notifs'[c] = notifs[c]]_vars

C9_Witness ==
    \E c \in CallSids :
        /\ Handled(c, "twiml-app")
        /\ calls[c].req.From = ClientId
        /\ calls[c].req.To = External
        /\ calls[c].resp.doc[1].noun = Number(External)
        /\ calls[c].resp.doc[1].callerId = Provisioned
        /\ notifs[c]["incoming-call"] = 0

\* C10: /voice/call-timeout returns the voicemail prompt and a record
\* instruction (maxLength 300, callback /voice/recording) when DialCallStatus
\* is absent or one of no-answer, busy, failed, canceled, and the empty
\* document when it is completed.
C10_CallTimeoutVoicemailOrEmpty ==
    \A c \in CallSids :
        Handled(c, "call-timeout")
        => /\ calls[c].req.DialCallStatus \in {"", "no-answer", "busy", "failed", "canceled"}
              => calls[c].resp.doc =
                    << [verb |-> "Say", text |-> config.VOICE_MESSAGE],
                       [verb |-> "Record", maxLength |-> 300,
                        recordingStatusCallback |-> Url("recording", NoQuery)] >>
           /\ calls[c].req.DialCallStatus = "completed" => calls[c].resp.doc = <<>>

C10_Witness ==
    \E c \in CallSids :
        /\ Handled(c, "call-timeout")
        /\ calls[c].req.DialCallStatus = ""
        /\ "Record" \in VerbsOf(calls[c].resp.doc)

\* The last exchange of call c is over and the route at path answered it.
Answered(c, path) ==
    /\ calls[c].phase \in {"live", "done"}
    /\ calls[c].req.path = path
    /\ calls[c].resp.status = 200

\* C11: a /voice/status callback with CallStatus = completed, Direction =
\* inbound and To = the provisioned number dispatches exactly one missed-call
\* notification when CallDuration < 5 and none when CallDuration >= 5.
C11_CompletedShortIsMissed ==
    \A c \in CallSids : \A n \in 0..20 :
        (/\ Answered(c, "status")
         /\ calls[c].req.CallStatus = "completed"
         /\ calls[c].req.Direction = "inbound"
         /\ calls[c].req.To = config.TWILIO_PHONE_NUMBER
         /\ calls[c].req.CallDuration = FormatInt(n))
        => calls[c].sent = IF n < 5 THEN <<"missed-call">> ELSE <<>>

C11_Witness ==
    \E c \in CallSids :
        /\ Answered(c, "status")
        /\ calls[c].req.CallStatus = "completed"
        /\ calls[c].req.Direction = "inbound"
        /\ calls[c].req.To = config.TWILIO_PHONE_NUMBER
        /\ calls[c].req.CallDuration = <<"4">>
        /\ calls[c].sent = <<"missed-call">>
        /\ notifs[c]["missed-call"] = 1

\* C12: a /voice/status callback for an inbound call to the provisioned
\* number with CallStatus failed, canceled, busy or no-answer dispatches one
\* missed-call notification whatever CallDuration is, an absent one included.
C12_UnansweredIsMissed ==
    \A c \in CallSids :
        (/\ Answered(c, "status")
         /\ calls[c].req.CallStatus \in {"failed", "canceled", "busy", "no-answer"}
         /\ calls[c].req.Direction = "inbound"
         /\ calls[c].req.To = config.TWILIO_PHONE_NUMBER)
        => calls[c].sent = <<"missed-call">>

C12_Witness ==
    \E c \in CallSids :
        /\ Answered(c, "status")
        /\ calls[c].req.CallStatus = "busy"
        /\ calls[c].req.Direction = "inbound"
        /\ calls[c].req.To = config.TWILIO_PHONE_NUMBER
        /\ calls[c].req.CallDuration = <<"1", "2">>
        /\ calls[c].sent = <<"missed-call">>

\* C13: a /voice/recording callback dispatches no voicemail notification when
\* RecordingDuration is 0 or absent and exactly one when it is above 0.
C13_VoicemailOnlyWithContent ==
    \A c \in CallSids :
        Answered(c, "recording")
        => /\ calls[c].req.RecordingDuration \in {<<>>, <<"0">>} => calls[c].sent = <<>>
           /\ \A n \in 1..20 :
                calls[c].req.RecordingDuration = FormatInt(n)
                => calls[c].sent = <<"voicemail">>

C13_Witness ==
    \E c \in CallSids :
        /\ Answered(c, "recording")
        /\ calls[c].req.RecordingDuration = <<"0">>
        /\ calls[c].sent = <<>>
        /\ calls[c].hops = 1

\* C14 as stated: in production a request with an invalid or missing
\* signature is answered with 403 on every endpoint and its handler does not
\* run.
C14_BadSignatureGets403 ==
    \A c \in CallSids :
        (/\ calls[c].phase # "new"
         /\ config.NODE_ENV = "production"
         /\ calls[c].req.sig \in {"invalid", "missing"})
        => /\ calls[c].resp.status = 403
           /\ calls[c].sent = <<>>

\* C14, amended: in production a request with an invalid or missing signature
\* is answered with 403 when an auth token is configured and with 500 when
\* none is; either way the handler does not run: the response is a JSON
\* error, no document is returned and no notification is dispatched.
C14_BadSignatureRejected ==
    \A c \in CallSids :
        (/\ calls[c].phase # "new"
         /\ config.NODE_ENV = "production"
         /\ calls[c].req.sig \in {"invalid", "missing"})
        => /\ config.TWILIO_AUTH_TOKEN # "" =>
                calls[c].resp = JsonError(403, "Invalid Twilio signature")
           /\ config.TWILIO_AUTH_TOKEN = "" =>
                calls[c].resp = JsonError(500, "Twilio auth token not configured")
           /\ calls[c].phase = "done"
           /\ calls[c].sent = <<>>
           /\ calls[c].rings = <<>>
           /\ \A k \in NotifKinds : notifs[c][k] = 0

C14_Witness ==
    \E c \in CallSids :
        /\ config.NODE_ENV = "production"
        /\ config.TWILIO_AUTH_TOKEN = "token"
        /\ calls[c].req.path = "sms-incoming"
        /\ calls[c].req.To = config.TWILIO_PHONE_NUMBER
        /\ calls[c].req.sig = "missing"
        /\ calls[c].resp.status = 403

\* The response to a request: the middleware, then the route.
ResponseTo(req, cfg) ==
    LET v == validateTwilioRequest(req, cfg)
    IN  IF v # NoResponse THEN v ELSE RouteResponse(req, cfg)

\* C15: outside production every request reaches its route handler, and the
\* response and the notifications are those of the same request with any other
\* state of the signature header.
C15_NoValidationOutsideProduction ==
    \A c \in CallSids :
        (/\ calls[c].phase \in {"live", "done"}
         /\ config.NODE_ENV # "production")
        => /\ calls[c].resp.status = 200
           /\ \A s \in Signatures :
                /\ ResponseTo([calls[c].req EXCEPT !.sig = s], config) = calls[c].resp
                /\ RouteNotifies([calls[c].req EXCEPT !.sig = s], config) = calls[c].sent

C15_Witness ==
    \E c \in CallSids :
        /\ config.NODE_ENV = "development"
        /\ config.TWILIO_AUTH_TOKEN = "token"
        /\ Answered(c, "dial-result")
        /\ calls[c].req.sig = "invalid"
        /\ calls[c].resp.doc # <<>>

\* C16: the response of an exchange that dispatched a notification is the
\* route's response to the request, with status 200, whatever became of the
\* delivery (delivered, refused or timed out, thrown, skipped by a disabled
\* service); it is never the error handler's.
C16_NotificationNeverChangesResponse ==
    \A c \in CallSids :
        (/\ calls[c].phase \in {"live", "done"}
         /\ calls[c].sent # <<>>)
        => /\ calls[c].resp = RouteResponse(calls[c].req, config)
           /\ calls[c].resp.status = 200
           /\ calls[c].resp # errorHandler
           /\ calls[c].req.path = "twiml-app" => calls[c].resp.type = "text/xml"
           /\ calls[c].req.path # "twiml-app" => calls[c].resp = OkResponse

C16_Witness ==
    \E c \in CallSids :
        /\ Answered(c, "twiml-app")
        /\ calls[c].sent = <<"incoming-call">>
        /\ calls[c].delivery = <<"caught">>
        /\ calls[c].resp.type = "text/xml"

\* C17: the response of /voice/twiml-app never waits for the delivery of the
\* incoming-call notification: whenever a delivery is still under way, the
\* response of that request has been sent.
C17_ResponseDoesNotWaitForDelivery ==
    \A c \in CallSids :
        (/\ calls[c].req.path = "twiml-app"
         /\ Len(calls[c].delivery) < Len(calls[c].sent))
        => calls[c].resp.status = 200

\* C18 as stated: the attempt a callback writes into the URL of its response
\* is one more than the attempt it received, for every attempt in 1..10.
C18_EmittedAttemptIsNextAttempt ==
    \A c \in CallSids : \A n \in 1..10 :
        (/\ calls[c].req.path \in {"dial-client", "dial-result"}
         /\ calls[c].resp.status = 200
         /\ calls[c].req.attempt = FormatInt(n))
        => \A u \in UrlsOf(calls[c].resp.doc) :
              u.path \in {"dial-client", "dial-result"} => u.attempt = FormatInt(n + 1)

\* C18, amended: /voice/dial-result with attempt n in 1..9 and a result that
\* is retried writes n + 1 into its redirect URL; /voice/dial-client writes
\* the n it received into its action URL; /voice/dial-result writes no attempt
\* at n = 10 nor for completed, busy, failed or canceled.
C18_AttemptRoundTrip ==
    \A c \in CallSids : \A n \in 1..10 :
        (/\ calls[c].req.path \in {"dial-client", "dial-result"}
         /\ calls[c].resp.status = 200
         /\ calls[c].req.attempt = FormatInt(n))
        => LET urls    == UrlsOf(calls[c].resp.doc)
               retried == calls[c].req.DialCallStatus
                             \notin {"completed", "busy", "failed", "canceled"}
           IN  IF calls[c].req.path = "dial-client"
               THEN urls = {Url("dial-result", FormatInt(n))}
               ELSE IF retried /\ n < 10
               THEN urls = {Url("dial-client", FormatInt(n + 1))}
               ELSE \A u \in urls : u.attempt = NoQuery

C18_Witness ==
    \E c \in CallSids :
        /\ Handled(c, "dial-result")
        /\ calls[c].req.attempt = <<"9">>
        /\ calls[c].req.DialCallStatus = "no-answer"
        /\ UrlsOf(calls[c].resp.doc) = {Url("dial-client", <<"1", "0">>)}
        /\ calls[c].rings = <<1, 2, 3, 4, 5, 6, 7, 8, 9>>

\* C19: in every interleaving of the callbacks of two calls, a step of one
\* call leaves the record and the notification counters of the other call
\* unchanged, and what each call got is what it gets alone: its last response
\* is the server's response to its last request (before and after any step of
\* the other call), and its ring attempts are 1, 2, 3, ... in order.
C19_CallsDoNotInterfere ==
    [][\A c \in CallSids :
          /\ calls'[c] # calls[c]
             => \A d \in CallSids \ {c} :
                   /\ calls'[d] = calls[d]
                   /\ notifs'[d] = notifs[d]
          /\ calls'[c].phase \in {"live", "done"}
             => /\ calls'[c].resp = ResponseTo(calls'[c].req, config)
                /\ calls'[c].resp = (ResponseTo(calls[c].req, config))'
                /\ calls'[c].sent = RouteNotifies(calls'[c].req, config)
          /\ \A i \in 1..Len(calls'[c].rings) : calls'[c].rings[i] = i]_vars

C19_Witness ==
    /\ Handled("CA1", "dial-result")
    /\ calls["CA1"].req.attempt = <<"3">>
    /\ calls["CA1"].rings = <<1, 2, 3>>
    /\ Handled("CA2", "dial-client")
    /\ calls["CA2"].rings = <<1, 2>>
    /\ notifs["CA1"]["incoming-call"] = 1
    /\ notifs["CA2"]["incoming-call"] = 1

\* C20: /voice/dial-client, /voice/dial-result and /voice/call-timeout are
\* stateless: the same request delivered a second time gets the same document
\* as the first time, and the document does not depend on the From, CallSid
\* or signature fields of the request.
C20_SameRequestSameDocument ==
    [][\A c \in CallSids :
          (/\ calls[c].phase \in {"live", "done"}
           /\ calls[c].resp.status = 200
           /\ calls'[c].hops = calls[c].hops + 1
           /\ calls'[c].req = calls[c].req
           /\ calls[c].req.path \in {"dial-client", "dial-result", "call-timeout"})
          => /\ calls'[c].resp = calls[c].resp
             /\ \A f \in {Caller, ClientId}, x \in CallSids :
                   RouteDoc([calls[c].req EXCEPT !.From = f, !.CallSid = x], config)
                      = calls'[c].resp.doc]_vars

C20_Witness ==
    \E c \in CallSids :
        /\ Handled(c, "dial-client")
        /\ calls[c].hops = 2
        /\ calls[c].req.attempt = <<"7">>
        /\ calls[c].rings = <<7, 7>>

\* C21: for a call to the provisioned number with no redirect number
\* configured, /voice/twiml-app dispatches exactly one incoming-call
\* notification and answers with exactly a redirect to
\* /voice/dial-client?attempt=1; its document has no dial.
C21_InboundStartsRetryLoopAtOne ==
    \A c \in CallSids :
        (/\ Answered(c, "twiml-app")
         /\ calls[c].req.To = config.TWILIO_PHONE_NUMBER
         /\ config.REDIRECT_NUMBER = "")
        => /\ calls[c].sent = <<"incoming-call">>
           /\ notifs[c] = [k \in NotifKinds |-> IF k = "incoming-call" THEN 1 ELSE 0]
           /\ calls[c].resp.doc = << Redirect(Url("dial-client", FormatInt(1))) >>
           /\ "Dial" \notin VerbsOf(calls[c].resp.doc)
           /\ calls[c].rings = <<>>

C21_Witness ==
    \E c \in CallSids :
        /\ Answered(c, "twiml-app")
        /\ calls[c].req.To = Provisioned
        /\ calls[c].req.From = Caller
        /\ config.REDIRECT_NUMBER = ""
        /\ calls[c].delivery = <<"delivered">>
        /\ Pending(c).url = Url("dial-client", <<"1">>)

\* C22: for every n in 1..10, /voice/dial-client?attempt=n returns three
\* verbs: a filler phrase, a pause, and a dial of the software client with a
\* 5 second timeout whose action URL is /voice/dial-result?attempt=n.
C22_DialClientDocument ==
    \A c \in CallSids : \A n \in 1..10 :
        (/\ Answered(c, "dial-client")
         /\ calls[c].req.attempt = FormatInt(n))
        => LET doc == calls[c].resp.doc
           IN  /\ Len(doc) = 3
               /\ doc[1].verb = "Say" /\ doc[1].text # ""
               /\ doc[2].verb = "Pause"
               /\ doc[3].verb = "Dial"
               /\ doc[3].noun.kind = "Client"
               /\ doc[3].timeout = 5
               /\ doc[3].action = Url("dial-result", FormatInt(n))
               /\ UrlsOf(doc) = {Url("dial-result", calls[c].req.attempt)}

C22_Witness ==
    \E c \in CallSids :
        /\ Answered(c, "dial-client")
        /\ calls[c].req.attempt = <<"1", "0">>
        /\ calls[c].hops = 1
        /\ calls[c].resp.doc[3].action = Url("dial-result", <<"1", "0">>)

StatusOnlyPaths == {"status", "recording", "sms-incoming", "sms-status"}

\* C23: a request to /voice/status, /voice/recording, /sms/incoming or
\* /sms/status that passes the validation is answered with a bare 200 "OK",
\* whatever its body fields are and whatever became of its notifications; the
\* response never carries a call-control document.
C23_StatusOnlyAnswersBare200 ==
    \A c \in CallSids :
        (/\ calls[c].phase \in {"live", "done"}
         /\ calls[c].req.path \in StatusOnlyPaths
         /\ validateTwilioRequest(calls[c].req, config) = NoResponse)
        => /\ calls[c].resp = OkResponse
           /\ calls[c].resp.status = 200
           /\ calls[c].resp.type # "text/xml"
           /\ calls[c].resp.doc = <<>>
           /\ calls[c].phase = "done"

C23_Witness ==
    \E c \in CallSids :
        /\ calls[c].phase = "done"
        /\ calls[c].req.path = "recording"
        /\ calls[c].req.RecordingDuration = <<"a">>
        /\ config.NODE_ENV = "production"
        /\ calls[c].req.sig = "valid"
        /\ calls[c].resp = OkResponse

\* C24: no step changes the provisioned number, the redirect number or the
\* voicemail prompt of the configuration: not a webhook exchange, and not the
\* storing of the application SID by ensureTwiMLApp.
C24_RoutingConfigIsReadOnly ==
    [][/\ config'.TWILIO_PHONE_NUMBER = config.TWILIO_PHONE_NUMBER
       /\ config'.REDIRECT_NUMBER = config.REDIRECT_NUMBER
       /\ config'.VOICE_MESSAGE = config.VOICE_MESSAGE]_vars

C24_Witness ==
    \E c \in CallSids :
        /\ config.TWILIO_APPLICATION_SID = "AP2"
        /\ config.REDIRECT_NUMBER = RedirectTo
        /\ config.VOICE_MESSAGE = CustomVoiceMessage
        /\ Handled(c, "call-timeout")
        /\ calls[c].resp.doc = VoicemailDoc

\* C25: an inbound call to the provisioned number that rang the client at
\* least once and is over without having been answered, and whose recording
\* callback (if any) and status callback have been delivered, has had at
\* least one missed-call or voicemail notification dispatched.
C25_UnansweredCallIsNotified ==
    \A c \in CallSids :
        (/\ calls[c].phase = "done"
         /\ calls[c].req.path = "status"
         /\ calls[c].resp.status = 200
         /\ calls[c].rings # <<>>
         /\ calls[c].outcomes \cap {"completed", "answered"} = {})
        => notifs[c]["missed-call"] + notifs[c]["voicemail"] >= 1

\* C26: a no-answer result at /voice/dial-result, whatever integer the attempt
\* parameter holds, never names /voice/dial-client with an attempt outside
\* 1..10.
C26_RetryAttemptAlwaysInRange ==
    \A c \in CallSids :
        (/\ Answered(c, "dial-result")
         /\ calls[c].req.DialCallStatus = "no-answer"
         /\ ~ParseInt(calls[c].req.attempt).nan)
        => \A u \in UrlsOf(calls[c].resp.doc) :
              u.path = "dial-client" => \E n \in 1..10 : u.attempt = FormatInt(n)

C28_StatusNotifiesAtMostOnce ==
    \A c \in CallSids :
        (/\ calls[c].req.path = "status"
         /\ \/ calls[c].phase = "awaiting" /\ calls[c].hops = 0
            \/ calls[c].phase = "done" /\ calls[c].hops = 1)
        => /\ Len(calls[c].sent) <= 1
           /\ notifs[c]["missed-call"] = Len(calls[c].sent)
           /\ \A k \in NotifKinds \ {"missed-call"} : notifs[c][k] = 0
           /\ (\/ calls[c].req.Direction # "inbound"
               \/ calls[c].req.To # config.TWILIO_PHONE_NUMBER)
              => /\ calls[c].sent = <<>>
                 /\ notifs[c]["missed-call"] = 0

C28_Witness ==
    \E c \in CallSids :
        /\ Answered(c, "status")
        /\ calls[c].req.CallStatus = "busy"
        /\ calls[c].req.Direction = "outbound-api"
        /\ calls[c].req.To = config.TWILIO_PHONE_NUMBER
        /\ calls[c].sent = <<>>
        /\ notifs[c]["missed-call"] = 0

\* C29: /sms/incoming dispatches exactly one SMS notification when To is the
\* provisioned number and none when it is not; /sms/status dispatches none.
C29_SmsNotifications ==
    \A c \in CallSids :
        /\ (Answered(c, "sms-incoming") /\ calls[c].hops = 1)
           => /\ calls[c].req.To = config.TWILIO_PHONE_NUMBER
                 => /\ calls[c].sent = <<"sms">>
                    /\ notifs[c] = [k \in NotifKinds |-> IF k = "sms" THEN 1 ELSE 0]
              /\ calls[c].req.To # config.TWILIO_PHONE_NUMBER
                 => /\ calls[c].sent = <<>>
                    /\ notifs[c] = [k \in NotifKinds |-> 0]
        /\ (calls[c].req.path = "sms-status" /\ calls[c].phase # "new")
           => /\ calls[c].phase = "done"
              /\ calls[c].sent = <<>>
              /\ notifs[c] = [k \in NotifKinds |-> 0]

C29_Witness ==
    \E c \in CallSids :
        /\ Answered(c, "sms-incoming")
        /\ calls[c].req.To = Provisioned
        /\ calls[c].sent = <<"sms">>
        /\ calls[c].delivery = <<"failed">>
        /\ notifs[c]["sms"] = 1

\* C30: in production with no auth token configured, every request, whatever
\* its signature, is answered with 500 "Twilio auth token not configured", and
\* its route handler does not run: no document, no notification.
C30_NoTokenGets500 ==
    \A c \in CallSids :
        (/\ calls[c].phase # "new"
         /\ config.NODE_ENV = "production"
         /\ config.TWILIO_AUTH_TOKEN = "")
        => /\ calls[c].resp = JsonError(500, "Twilio auth token not configured")
           /\ calls[c].phase = "done"
           /\ calls[c].resp.doc = <<>>
           /\ calls[c].sent = <<>>
           /\ \A k \in NotifKinds : notifs[c][k] = 0

C30_Witness ==
    \E c \in CallSids :
        /\ config.NODE_ENV = "production"
        /\ config.TWILIO_AUTH_TOKEN = ""
        /\ calls[c].req.path = "twiml-app"
        /\ calls[c].req.To = Provisioned
        /\ calls[c].req.sig = "valid"
        /\ calls[c].resp.status = 500

====
